---- MODULE Spec2Model ----
(***************************************************************************)
(* songs-history (src/src/main.rs): walk the commits reachable from head,  *)
(* oldest first, diff each commit against its first parent, keep the       *)
(* Added/Deleted deltas under output/songs, filter them against the        *)
(* Already-Added Set and the Current-Id Set, and write the report to       *)
(* output.txt through a BufWriter.                                         *)
(*                                                                         *)
(* Abstractions (all on the side of the libraries, none on main.rs):       *)
(*  - a path is its sequence of components, a component is the pair        *)
(*    <<stem, extension>>: Path::starts_with compares whole components,    *)
(*    Path::file_stem strips the extension of the last one;                *)
(*  - a tree is the set of <<path, blob>> entries it holds, and            *)
(*    diff_tree_to_tree yields one delta per changed path in path order;   *)
(*  - output.txt is a sequence of lines; the BufWriter holds the lines     *)
(*    written and hands them to the file when it is dropped (its 8 KiB     *)
(*    buffer never fills within the bounds); write errors are left out;    *)
(*  - a section header carries the index of its commit in the walk, which  *)
(*    stands for the commit's formatted time; format_time is modelled on   *)
(*    its own, with the time zone of the machine as an argument.           *)
(*                                                                         *)
(* Specifications: Spec (a first run over linear histories), SpecOutput    *)
(* (every flag and output.txt), SpecGraph and SpecGraphFair (histories     *)
(* with branches and merges, the Revwalk step by step), SpecFilter (the    *)
(* loop over the deltas on any input), SpecTime (format_time on any        *)
(* input).                                                                 *)
(***************************************************************************)
EXTENDS Integers, Sequences, FiniteSets, TLC

(* ------------------------------ bounds -------------------------------- *)

\* commits reachable from head
MaxCommits == 4
\* values in output/summary.json
MaxEntries == 2
\* elements of one "items" array
MaxItems == 2
\* deltas of one diff, when the event filter is run on its own
MaxDeltas == 3
\* commits of a repository whose history has branches and merges
MaxGraphCommits == 3

(* ------------------------------- paths -------------------------------- *)

Dir(name) == <<name, "">>

\* the prefix of line 83, as Path components
TrackedDir == <<Dir("output"), Dir("songs")>>

SongA == <<Dir("output"), Dir("songs"), <<"a", "json">>>>
\* another path of the same stem
SongATxt == <<Dir("output"), Dir("songs"), <<"a", "txt">>>>
SongB == <<Dir("output"), Dir("songs"), <<"b", "json">>>>
SongC == <<Dir("output"), Dir("songs"), <<"c", "json">>>>
\* outside the tracked directory, though "output/songs" is a prefix of its text
Other == <<Dir("output"), Dir("songs2"), <<"b", "json">>>>

\* the paths of the modelled repositories, in the order a tree diff lists them
AllPaths == <<SongA, SongATxt, SongB, SongC, Other>>

\* a tree entry: <<path, blob>>
Entry(path, blob) == <<path, blob>>

\* the modelled repositories, each the set of the entries that ever exist
\* in it
Repositories ==
    { {Entry(SongA, 1), Entry(SongB, 1), Entry(SongC, 1)},
      {Entry(SongA, 1), Entry(SongB, 1), Entry(Other, 1)},
      {Entry(SongA, 1), Entry(SongATxt, 1)},
      {Entry(SongA, 1), Entry(SongA, 2)} }

PathsOf(tree) == {e[1] : e \in tree}

BlobOf(tree, path) == (CHOOSE e \in tree : e[1] = path)[2]

\* a tree holds at most one blob at a path
IsTree(t) == \A e1, e2 \in t : e1[1] = e2[1] => e1 = e2

\* the repository of the runs that model the output file
SmallRepository == {Entry(SongA, 1), Entry(SongB, 1)}

EmptyTree == {}

\* Path::starts_with: component-wise prefix
starts_with(path, base) ==
    /\ Len(base) <= Len(path)
    /\ \A k \in 1..Len(base) : path[k] = base[k]

\* Path::extension in the place of Path::file_stem
file_extension(path) == path[Len(path)][2]

\* Path::file_stem: the last component without its extension
file_stem(path) == path[Len(path)][1]

(* ------------------------------ the diff ------------------------------ *)

\* git2 Delta status of one path between two trees ("Unmodified": no delta)
DeltaStatus(old, new, path) ==
    IF path \in PathsOf(new) /\ path \notin PathsOf(old) THEN "Added"
    ELSE IF path \in PathsOf(old) /\ path \notin PathsOf(new) THEN "Deleted"
    ELSE IF path \in PathsOf(old) /\ BlobOf(old, path) # BlobOf(new, path) THEN "Modified"
    ELSE "Unmodified"

\* repo.diff_tree_to_tree(old, new).deltas(): new_file().path() is the path of
\* the entry for an addition and for a deletion alike
diff_tree_to_tree(old, new) ==
    LET F[k \in 0..Len(AllPaths)] ==
            IF k = 0 THEN <<>>
            ELSE LET st == DeltaStatus(old, new, AllPaths[k])
                 IN  IF st = "Unmodified" THEN F[k - 1]
                     ELSE Append(F[k - 1], [status |-> st, new_file |-> AllPaths[k]])
    IN  F[Len(AllPaths)]

(* --------------------------- the event filter ------------------------- *)

\* line 78: only Added and Deleted deltas are considered
IsAddedOrDeleted(status) == status \in {"Added", "Deleted"}

\* a filter that looks at the first component of the path only
IsTrackedFirstComponent(path) == Len(path) >= 1 /\ path[1] = TrackedDir[1]

\* line 83: only paths under output/songs are considered
IsTracked(path) == starts_with(path, TrackedDir)

\* the test of line 89 inverted
DropAddedInverted(video, already) == video \notin already

\* the test of line 89 left out
DropAddedNever(video, already) == FALSE

\* line 89: an Added event of an identifier already reported is dropped
DropAdded(video, already) == video \in already

\* the test of line 96 left out
DropDeletedNever(video, current) == FALSE

\* line 96: a Deleted event of an identifier of the Current-Id Set is dropped
DropDeleted(video, current) == video \in current

\* an iteration where a Deleted event survives only when its identifier is
\* in the Already-Added Set
ProcessDeltaDeleteNeedsAdd(acc, delta, current) ==
    IF ~IsAddedOrDeleted(delta.status) THEN acc
    ELSE IF ~IsTracked(delta.new_file) THEN acc
    ELSE LET video == file_stem(delta.new_file)
         IN  IF delta.status = "Added"
             THEN IF DropAdded(video, acc.already_added) THEN acc
                  ELSE [acc EXCEPT !.already_added = @ \cup {video},
                                   !.added = Append(@, video)]
             ELSE IF DropDeleted(video, current) \/ video \notin acc.already_added
                  THEN acc
                  ELSE [acc EXCEPT !.deleted = Append(@, video)]

\* an iteration where a surviving Deleted event takes its identifier out of
\* the Already-Added Set
ProcessDeltaDeleteForgets(acc, delta, current) ==
    IF ~IsAddedOrDeleted(delta.status) THEN acc
    ELSE IF ~IsTracked(delta.new_file) THEN acc
    ELSE LET video == file_stem(delta.new_file)
         IN  IF delta.status = "Added"
             THEN IF DropAdded(video, acc.already_added) THEN acc
                  ELSE [acc EXCEPT !.already_added = @ \cup {video},
                                   !.added = Append(@, video)]
             ELSE IF DropDeleted(video, current) THEN acc
                  ELSE [acc EXCEPT !.already_added = @ \ {video},
                                   !.deleted = Append(@, video)]

\* an iteration where a surviving Added event is not put into the
\* Already-Added Set
ProcessDeltaAddNotRemembered(acc, delta, current) ==
    IF ~IsAddedOrDeleted(delta.status) THEN acc
    ELSE IF ~IsTracked(delta.new_file) THEN acc
    ELSE LET video == file_stem(delta.new_file)
         IN  IF delta.status = "Added"
             THEN IF DropAdded(video, acc.already_added) THEN acc
                  ELSE [acc EXCEPT !.added = Append(@, video)]
             ELSE IF DropDeleted(video, current) THEN acc
                  ELSE [acc EXCEPT !.deleted = Append(@, video)]

\* an iteration where a Deleted event of an identifier that the commit
\* already deleted is dropped
ProcessDeltaDeleteOnce(acc, delta, current) ==
    IF ~IsAddedOrDeleted(delta.status) THEN acc
    ELSE IF ~IsTracked(delta.new_file) THEN acc
    ELSE LET video == file_stem(delta.new_file)
         IN  IF delta.status = "Added"
             THEN IF DropAdded(video, acc.already_added) THEN acc
                  ELSE [acc EXCEPT !.already_added = @ \cup {video},
                                   !.added = Append(@, video)]
             ELSE IF DropDeleted(video, current)
                     \/ \E k \in 1..Len(acc.deleted) : acc.deleted[k] = video
                  THEN acc
                  ELSE [acc EXCEPT !.deleted = Append(@, video)]

\* lines 78-102: one iteration of the loop over the deltas of a commit;
\* acc holds the locals added, deleted and the set already_added
ProcessDelta(acc, delta, current) ==
    IF ~IsAddedOrDeleted(delta.status) THEN acc
    ELSE IF ~IsTracked(delta.new_file) THEN acc
    ELSE LET video == file_stem(delta.new_file)
         IN  IF delta.status = "Added"
             THEN IF DropAdded(video, acc.already_added) THEN acc
                  ELSE [acc EXCEPT !.already_added = @ \cup {video},
                                   !.added = Append(@, video)]
             ELSE IF DropDeleted(video, current) THEN acc
                  ELSE [acc EXCEPT !.deleted = Append(@, video)]

\* lines 74-103: the loop over the deltas of a commit
ProcessDeltas(deltas, already, current) ==
    LET F[k \in 0..Len(deltas)] ==
            IF k = 0
            THEN [added |-> <<>>, deleted |-> <<>>, already_added |-> already]
            ELSE ProcessDelta(F[k - 1], deltas[k], current)
    IN  F[Len(deltas)]

(* ------------------------------ the report ---------------------------- *)

\* line 53
TitleLine == <<"# songs-history">>

\* lines 170-172
format_video(video) == <<"[", video, "](https://youtu.be/", video, ")">>

\* line 109; i is the commit's place in the walk, standing for its time
HeaderLine(i) == <<"## ", i>>

\* line 111
AddedLine(video) == <<"Added ", format_video(video), "  ">>

\* line 114
RemovedLine(video) == <<"Removed ", format_video(video), "  ">>

\* lines 110-112
AddedLines(added) == [k \in 1..Len(added) |-> AddedLine(added[k])]

\* lines 113-115
RemovedLines(deleted) == [k \in 1..Len(deleted) |-> RemovedLine(deleted[k])]

\* a test of line 105 that counts the added identifiers only
SkipSectionAddedOnly(added, deleted) == Len(added) = 0

\* line 105: a commit without surviving events gets no section
SkipSection(added, deleted) == Len(added) + Len(deleted) = 0

\* the section written with its removed identifiers first
SectionLinesRemovedFirst(i, added, deleted) ==
    IF SkipSection(added, deleted) THEN <<>>
    ELSE <<HeaderLine(i)>> \o RemovedLines(deleted) \o AddedLines(added)

\* lines 105-115: the lines commit i contributes
SectionLines(i, added, deleted) ==
    IF SkipSection(added, deleted) THEN <<>>
    ELSE <<HeaderLine(i)>> \o AddedLines(added) \o RemovedLines(deleted)

(* --------------------------- the output file -------------------------- *)

NoFile == [exists |-> FALSE, content |-> <<>>]

\* what output.txt holds before the run, when it exists
OldContent == <<<<"old report">>>>

OldFile == [exists |-> TRUE, content |-> OldContent]

\* output.txt opened with create(true) whatever the flag
OpenOutputCreate(f, overwrite) ==
    [ok |-> TRUE, file |-> [exists |-> TRUE, content |-> <<>>]]

\* lines 37-42: OpenOptions write, truncate, create_new(!force), create(force)
OpenOutput(f, overwrite) ==
    IF ~overwrite
    THEN IF f.exists
         THEN [ok |-> FALSE, file |-> f]
         ELSE [ok |-> TRUE, file |-> [exists |-> TRUE, content |-> <<>>]]
    ELSE [ok |-> TRUE, file |-> [exists |-> TRUE, content |-> <<>>]]

\* BufWriter::drop: the buffered lines reach the file
Flushed(f, buffer) == [f EXCEPT !.content = @ \o buffer]

(* ------------------------- output/summary.json ------------------------ *)

\* the identifiers the modelled summaries name
DocIds == {"a"}

\* the "id" member of an item as a JSON value; item["id"] of an item without
\* one (or of an item that is no object) is Null
JsonString(s) == <<"String", s>>
JsonNull == <<"Null">>

\* serde_json::Value::as_str
as_str(v) == IF v[1] = "String" THEN <<"Some", v[2]>> ELSE <<"None">>

ItemSet == {[id |-> JsonString(s)] : s \in DocIds} \cup {[id |-> JsonNull]}

SeqsUpTo(S, n) == UNION {[1..k -> S] : k \in 0..n}

\* the values of the stream: one that does not parse, one without "items",
\* one whose "items" is no array, one with an "items" array
EntrySet ==
    {[kind |-> k, items |-> <<>>] : k \in {"unparsable", "no_items", "items_not_array"}}
    \cup {[kind |-> "items", items |-> its] : its \in SeqsUpTo(ItemSet, MaxItems)}

DocSet == SeqsUpTo(EntrySet, MaxEntries)

\* lines 158-161: the loop over one "items" array; the unwrap of line 159
\* panics at the first item whose "id" is no string
LoadItems(items, into) ==
    LET F[k \in 0..Len(items)] ==
            IF k = 0 THEN [panicked |-> FALSE, ids |-> into]
            ELSE IF F[k - 1].panicked THEN F[k - 1]
            ELSE LET id == as_str(items[k].id)
                 IN  IF id[1] = "None" THEN [panicked |-> TRUE, ids |-> F[k - 1].ids]
                     ELSE [panicked |-> FALSE, ids |-> F[k - 1].ids \cup {id[2]}]
    IN  F[Len(items)]

\* line 152-154: what is left of the stream after it yielded its first value;
\* a StreamDeserializer that yielded an error yields nothing more
StreamRest(s) == IF Head(s).kind = "unparsable" THEN <<>> ELSE Tail(s)

(* ----------------------------- the program ---------------------------- *)

VARIABLES
    pc,             \* where main is
    directory,      \* args.directory: the entries that ever exist in the repository
    force,          \* args.force
    file0,          \* output.txt before the run
    file,           \* output.txt
    writer,         \* the lines the BufWriter holds
    stream,         \* get_current_ids: the values of the summary not yet read
    ids,            \* get_current_ids: the local ids
    current_ids,    \* the Current-Id Set
    already_added,  \* the Already-Added Set
    walk,           \* the commits processed so far, oldest first
    error,          \* the panic that ended the run, "none" without one
    history,        \* the commits of the repository once revwalk reads them
    revwalk,        \* the Revwalk: the commits pushed and those it yielded
    call            \* a function of main.rs called on its own

vars == <<pc, directory, force, file0, file, writer, stream, ids, current_ids,
          already_added, walk, error, history, revwalk, call>>

\* a Revwalk nothing was pushed to
NewRevwalk == [pending |-> {}, collected |-> <<>>]

\* no function is called on its own
NoCall == [fn |-> "none"]

\* the state at the start of main, for a repository of repos, a flag of
\* flags and an output.txt of files
Start(repos, flags, files) ==
    /\ pc = "open_repo"
    /\ directory \in repos
    /\ force \in flags
    /\ file0 \in files
    /\ file = file0
    /\ writer = <<>>
    /\ stream = <<>>
    /\ ids = {}
    /\ current_ids = {}
    /\ already_added = {}
    /\ walk = <<>>
    /\ error = "none"
    /\ history = <<>>
    /\ revwalk = NewRevwalk
    /\ call = NoCall

\* a first run: any of the modelled repositories, no --force, no output.txt
Init == Start(Repositories, {FALSE}, {NoFile})

\* any flag and any output.txt, over a repository of two songs
InitOutput == Start({SmallRepository}, BOOLEAN, {NoFile, OldFile})

\* a panic: main ends; when the stack unwinds the BufWriter is dropped and
\* hands its lines to the file, when the build aborts on panic it is not
Panic(site, unwinds) ==
    /\ pc' = "panicked"
    /\ error' = site
    /\ file' = IF unwinds THEN Flushed(file, writer) ELSE file
    /\ writer' = <<>>

\* lines 29-32
OpenRepo ==
    /\ pc = "open_repo"
    /\ \E opened \in BOOLEAN :
        IF opened
        THEN pc' = "push_head" /\ UNCHANGED <<error, file, writer>>
        ELSE Panic("open_repo", TRUE)
    /\ UNCHANGED <<history, revwalk, call>>
    /\ UNCHANGED <<directory, force, file0, stream, ids, current_ids, already_added, walk>>

\* lines 34-35: push_head fails when head does not resolve
PushHead ==
    /\ pc = "push_head"
    /\ \E resolved \in BOOLEAN :
        IF resolved
        THEN pc' = "open_output" /\ UNCHANGED <<error, file, writer>>
        ELSE Panic("push_head", TRUE)
    /\ UNCHANGED <<history, revwalk, call>>
    /\ UNCHANGED <<directory, force, file0, stream, ids, current_ids, already_added, walk>>

\* lines 37-51
OpenOutputFile ==
    /\ pc = "open_output"
    /\ \E denied \in BOOLEAN :
        IF denied
        THEN Panic("open_file", TRUE)
        ELSE LET r == OpenOutput(file, force)
             IN  IF r.ok
                 THEN /\ pc' = "write_title"
                      /\ file' = r.file
                      /\ UNCHANGED <<error, writer>>
                 ELSE Panic("already_exists", TRUE)
    /\ UNCHANGED <<history, revwalk, call>>
    /\ UNCHANGED <<directory, force, file0, stream, ids, current_ids, already_added, walk>>

\* lines 52-53
WriteTitle ==
    /\ pc = "write_title"
    /\ writer' = Append(writer, TitleLine)
    /\ pc' = "resolve_summary"
    /\ UNCHANGED <<history, revwalk, call>>
    /\ UNCHANGED <<directory, force, file0, file, stream, ids, current_ids,
                   already_added, walk, error>>

\* lines 55, 141-152: the blob of output/summary.json at head, or the unwrap
\* of line 55 panics
ResolveSummary ==
    /\ pc = "resolve_summary"
    /\ \/ \E doc \in DocSet :
            /\ stream' = doc
            /\ ids' = {}
            /\ pc' = "load"
            /\ UNCHANGED <<error, file, writer>>
       \/ \E unwinds \in BOOLEAN :
            /\ Panic("summary", unwinds)
            /\ UNCHANGED <<stream, ids>>
    /\ UNCHANGED <<history, revwalk, call>>
    /\ UNCHANGED <<directory, force, file0, current_ids, already_added, walk>>

\* lines 154-165: one value of the stream
LoadValue ==
    /\ pc = "load"
    /\ stream # <<>>
    /\ LET value == Head(stream)
           r == IF value.kind = "items"
                THEN LoadItems(value.items, ids)
                ELSE [panicked |-> FALSE, ids |-> ids]
       IN  IF r.panicked
           THEN /\ \E unwinds \in BOOLEAN : Panic("id_unwrap", unwinds)
                /\ UNCHANGED <<stream, ids>>
           ELSE /\ ids' = r.ids
                /\ stream' = StreamRest(stream)
                /\ UNCHANGED <<pc, error, file, writer>>
    /\ UNCHANGED <<history, revwalk, call>>
    /\ UNCHANGED <<directory, force, file0, current_ids, already_added, walk>>

\* lines 167, 55, 57: the stream is exhausted
LoadDone ==
    /\ pc = "load"
    /\ stream = <<>>
    /\ current_ids' = ids
    /\ ids' = {}
    /\ already_added' = {}
    /\ pc' = "walk"
    /\ UNCHANGED <<history, revwalk, call>>
    /\ UNCHANGED <<directory, force, file0, file, writer, stream, walk, error>>

\* a root commit diffed against the empty tree instead of skipped
HasParentAlways(commit) == TRUE

\* lines 61-64: the first parent, 0 for a commit without one
HasParent(commit) == commit.parent # 0

\* a commit diffed against the tree of its last parent
ParentTreeLast(w, commit) ==
    IF commit.parent = 0 THEN EmptyTree
    ELSE IF commit.others = <<>> THEN w[commit.parent].tree
    ELSE w[commit.others[Len(commit.others)]].tree

\* lines 66-69: the tree the commit is diffed against
ParentTree(w, commit) ==
    IF commit.parent = 0 THEN EmptyTree ELSE w[commit.parent].tree

\* the commits the walk may yield next: the history is linear, the first
\* commit is the root and every other commit has its predecessor as parent
NextCommits(w, repo) ==
    {[parent |-> Len(w), tree |-> t] : t \in {u \in SUBSET repo : IsTree(u)}}

\* lines 59-116: one commit of the walk
ProcessCommit ==
    /\ pc = "walk"
    /\ Len(walk) < MaxCommits
    /\ \E commit \in NextCommits(walk, directory) :
        /\ walk' = Append(walk, commit)
        /\ IF ~HasParent(commit)
           THEN UNCHANGED <<already_added, writer>>
           ELSE LET diff == diff_tree_to_tree(ParentTree(walk, commit), commit.tree)
                    r == ProcessDeltas(diff, already_added, current_ids)
                IN  /\ already_added' = r.already_added
                    /\ writer' = writer \o SectionLines(Len(walk) + 1, r.added, r.deleted)
    /\ UNCHANGED <<history, revwalk, call>>
    /\ UNCHANGED <<pc, directory, force, file0, file, stream, ids, current_ids, error>>

\* lines 118-120: the walk is over, main returns and the BufWriter is dropped
WalkDone ==
    /\ pc = "walk"
    /\ Len(walk) >= 1
    /\ file' = Flushed(file, writer)
    /\ writer' = <<>>
    /\ pc' = "done"
    /\ UNCHANGED <<history, revwalk, call>>
    /\ UNCHANGED <<directory, force, file0, stream, ids, current_ids, already_added,
                   walk, error>>

Next ==
    \/ OpenRepo
    \/ PushHead
    \/ OpenOutputFile
    \/ WriteTitle
    \/ ResolveSummary
    \/ LoadValue
    \/ LoadDone
    \/ ProcessCommit
    \/ WalkDone

Spec == Init /\ [][Next]_vars

SpecOutput == InitOutput /\ [][Next]_vars

(* ------------------- histories with branches and merges --------------- *)
(* Above, the commits of a linear history are drawn as the walk reaches    *)
(* them. Below, the whole commit graph is drawn when collect() starts to   *)
(* iterate, and the Revwalk is modelled step by step. No sorting is set on *)
(* the Revwalk (lines 34-35): it yields head first, and a commit becomes   *)
(* pending once a child of it was yielded; which pending commit comes next *)
(* depends on the commit times, which the model leaves open.               *)

\* the repository of the runs over a commit graph
GraphRepository == {Entry(SongA, 1)}

\* the commits that can be created on top of history h: without a parent,
\* with one parent, or with two (a merge), each parent an existing commit
CommitsAfter(h, repo) ==
    LET n == Len(h) + 1
    IN  {[id |-> n, parent |-> p, others |-> o, tree |-> t] :
            p \in 0..(n - 1),
            o \in {<<>>} \cup {<<j>> : j \in 1..(n - 1)},
            t \in {u \in SUBSET repo : IsTree(u)}}
        \ {c \in [id : {n}, parent : 0..(n - 1), others : {<<j>> : j \in 1..(n - 1)},
                  tree : SUBSET repo] : c.parent = 0 \/ c.others[1] = c.parent}

\* the commit graphs of up to MaxGraphCommits commits, in the order of
\* creation; HEAD is at the last commit
Histories(repo) ==
    LET H[k \in 0..MaxGraphCommits] ==
            IF k = 0 THEN {<<>>}
            ELSE H[k - 1] \cup
                 UNION {{Append(h, c) : c \in CommitsAfter(h, repo)} :
                            h \in {g \in H[k - 1] : Len(g) = k - 1}}
    IN  H[MaxGraphCommits] \ {<<>>}

\* the commit graphs the repository of these runs can hold
GraphHistories == Histories(GraphRepository)

\* the parents of a commit, the first parent first
Parents(commit) ==
    IF commit.parent = 0 THEN <<>> ELSE <<commit.parent>> \o commit.others

\* a Revwalk that follows the first parent only
YieldedFirstParentOnly(rw, h, id) ==
    LET seen == rw.pending \cup {rw.collected[k] : k \in 1..Len(rw.collected)}
    IN  [pending |-> (rw.pending \ {id}) \cup ({h[id].parent} \ (seen \cup {0})),
         collected |-> Append(rw.collected, id)]

\* Revwalk::next yields the pending commit id: its parents not seen before
\* become pending
Yielded(rw, h, id) ==
    LET seen == rw.pending \cup {rw.collected[k] : k \in 1..Len(rw.collected)}
        ps == Parents(h[id])
    IN  [pending |-> (rw.pending \ {id}) \cup ({ps[k] : k \in 1..Len(ps)} \ seen),
         collected |-> Append(rw.collected, id)]

InitGraph == Start({GraphRepository}, {FALSE}, {NoFile})

\* line 59: collect() starts to iterate over the Revwalk, whose only pushed
\* commit is the head of the repository (line 35)
StartWalk ==
    /\ pc = "walk"
    /\ history' \in GraphHistories
    /\ revwalk' = [pending |-> {Len(history')}, collected |-> <<>>]
    /\ pc' = "collect"
    /\ UNCHANGED <<directory, force, file0, file, writer, stream, ids, current_ids,
                   already_added, walk, error, call>>

\* line 59: one commit yielded to collect(), which ends when no commit is
\* pending
RevwalkNext ==
    /\ pc = "collect"
    /\ \E id \in revwalk.pending :
        /\ revwalk' = Yielded(revwalk, history, id)
        /\ pc' = IF revwalk'.pending = {} THEN "process" ELSE "collect"
    /\ UNCHANGED <<directory, force, file0, file, writer, stream, ids, current_ids,
                   already_added, walk, error, history, call>>

\* lines 59-116: one commit of the collected vector, taken from its end
ProcessCollected ==
    /\ pc = "process"
    /\ Len(walk) < Len(revwalk.collected)
    /\ LET id == revwalk.collected[Len(revwalk.collected) - Len(walk)]
           commit == history[id]
       IN  /\ walk' = Append(walk, commit)
           /\ IF ~HasParent(commit)
              THEN UNCHANGED <<already_added, writer>>
              ELSE LET diff == diff_tree_to_tree(ParentTree(history, commit), commit.tree)
                       r == ProcessDeltas(diff, already_added, current_ids)
                   IN  /\ already_added' = r.already_added
                       /\ writer' = writer \o SectionLines(id, r.added, r.deleted)
    /\ UNCHANGED <<pc, directory, force, file0, file, stream, ids, current_ids,
                   error, history, revwalk, call>>

\* lines 118-120: every collected commit was processed, main returns and
\* the BufWriter is dropped
CollectedDone ==
    /\ pc = "process"
    /\ Len(walk) = Len(revwalk.collected)
    /\ file' = Flushed(file, writer)
    /\ writer' = <<>>
    /\ pc' = "done"
    /\ UNCHANGED <<directory, force, file0, stream, ids, current_ids, already_added,
                   walk, error, history, revwalk, call>>

NextGraph ==
    \/ OpenRepo
    \/ PushHead
    \/ OpenOutputFile
    \/ WriteTitle
    \/ ResolveSummary
    \/ LoadValue
    \/ LoadDone
    \/ StartWalk
    \/ RevwalkNext
    \/ ProcessCollected
    \/ CollectedDone

SpecGraph == InitGraph /\ [][NextGraph]_vars

\* main is one thread that runs until it returns or panics
SpecGraphFair == SpecGraph /\ WF_vars(NextGraph)

(* ------------------ the event filter run on its own ------------------- *)

\* the identifiers the two sets of a call are made of
FilterIds == {"a", "b"}

\* the deltas of a call: additions and deletions under output/songs (two of
\* them of the same stem) and outside of it, and a modification
FilterDeltas ==
    {[status |-> st, new_file |-> p] :
        st \in {"Added", "Deleted"}, p \in {SongA, SongATxt, SongB, Other}}
    \cup {[status |-> "Modified", new_file |-> SongA]}

\* lines 74-75, 57: the locals before the loop over the deltas
NoEvents(already) == [added |-> <<>>, deleted |-> <<>>, already_added |-> already]

\* the loop of lines 77-103 entered with any deltas, any Already-Added Set
\* and any Current-Id Set
FilterCalls ==
    {[fn |-> "ProcessDeltas", deltas |-> d, already |-> a, current |-> c,
      returned |-> FALSE, result |-> NoEvents(a)] :
        d \in SeqsUpTo(FilterDeltas, MaxDeltas),
        a \in SUBSET FilterIds, c \in SUBSET FilterIds}

\* main is not running: one function is called with the arguments of c
Called(c) ==
    /\ pc = "call"
    /\ call = c
    /\ directory = {}
    /\ force = FALSE
    /\ file0 = NoFile
    /\ file = NoFile
    /\ writer = <<>>
    /\ stream = <<>>
    /\ ids = {}
    /\ current_ids = {}
    /\ already_added = {}
    /\ walk = <<>>
    /\ error = "none"
    /\ history = <<>>
    /\ revwalk = NewRevwalk

InitFilter == \E c \in FilterCalls : Called(c)

\* lines 74-103 on the arguments of the call
CallProcessDeltas ==
    /\ pc = "call"
    /\ call.fn = "ProcessDeltas"
    /\ ~call.returned
    /\ call' = [call EXCEPT
                  !.returned = TRUE,
                  !.result = ProcessDeltas(call.deltas, call.already, call.current)]
    /\ UNCHANGED <<pc, directory, force, file0, file, writer, stream, ids,
                   current_ids, already_added, walk, error, history, revwalk>>

NextFilter == CallProcessDeltas

SpecFilter == InitFilter /\ [][NextFilter]_vars

(* ------------------------------ format_time --------------------------- *)

\* the date of the day that comes `days` days after 1970-01-01
CivilFromDays(days) ==
    LET z == days + 719468
        era == z \div 146097
        doe == z - era * 146097
        yoe == (doe - doe \div 1460 + doe \div 36524 - doe \div 146096) \div 365
        doy == doe - (365 * yoe + yoe \div 4 - yoe \div 100)
        mp == (5 * doy + 2) \div 153
        month == IF mp < 10 THEN mp + 3 ELSE mp - 9
    IN  [year |-> yoe + era * 400 + (IF month <= 2 THEN 1 ELSE 0),
         month |-> month,
         day |-> doy - (153 * mp + 2) \div 5 + 1]

\* time::Tm: the broken-down time of the instant sec (seconds since the
\* epoch) in a time zone utcoff seconds east of UTC; 1970-01-01 was a Thursday
Tm(sec, utcoff) ==
    LET local == sec + utcoff
        days == local \div 86400
        rest == local % 86400
        date == CivilFromDays(days)
    IN  [tm_year |-> date.year, tm_mon |-> date.month, tm_mday |-> date.day,
         tm_hour |-> rest \div 3600, tm_min |-> (rest % 3600) \div 60,
         tm_sec |-> rest % 60, tm_wday |-> (days + 4) % 7]

\* line 129, time::at: the broken-down time in the local time zone of the
\* machine, zone seconds east of UTC
at(sec, zone) == Tm(sec, zone)

WeekdayNames == <<"Sun", "Mon", "Tue", "Wed", "Thu", "Fri", "Sat">>

MonthNames ==
    <<"Jan", "Feb", "Mar", "Apr", "May", "Jun", "Jul", "Aug", "Sep", "Oct", "Nov", "Dec">>

\* {:02} and %H, %M, %S: the decimal digits of n, at least two of them
ZeroPadded(n) ==
    IF n < 10 THEN <<0, n>>
    ELSE IF n < 100 THEN <<n \div 10, n % 10>>
    ELSE <<n \div 100, (n \div 10) % 10, n % 10>>

\* %e: the day of the month, a space in the place of a leading zero
SpacePadded(n) == IF n < 10 THEN <<" ", n>> ELSE <<n \div 10, n % 10>>

\* line 133: strftime("%a %b %e %T %Y")
strftime(tm) ==
    <<WeekdayNames[tm.tm_wday + 1], " ", MonthNames[tm.tm_mon], " ",
      SpacePadded(tm.tm_mday), " ",
      ZeroPadded(tm.tm_hour), ":", ZeroPadded(tm.tm_min), ":", ZeroPadded(tm.tm_sec),
      " ", tm.tm_year>>

\* lines 122-138; zone is the local time zone of the machine that runs main
format_time(time, zone) ==
    LET n == time.offset_minutes
        offset == IF n < 0 THEN -n ELSE n
        sign == IF n < 0 THEN "-" ELSE "+"
        hours == offset \div 60
        minutes == offset % 60
        ts == time.seconds + n * 60
    IN  strftime(at(ts, zone)) \o <<" ", sign, ZeroPadded(hours), ZeroPadded(minutes)>>

\* git2::Time of the modelled commits: the first second of the epoch, the
\* last second of a day, of a February and of a year, a leap day; offsets
\* west and east of UTC, of whole hours and not
CommitTimes ==
    {[seconds |-> s, offset_minutes |-> m] :
        s \in {0, 86399, 951782399, 1709164800, 1735689599},
        m \in {0 - 720, 0 - 210, 0 - 1, 0, 59, 60, 330, 840}}

\* the local time zones of the machines: UTC, one hour east, five hours west
Zones == {0, 3600, 0 - 18000}

TimeCalls ==
    {[fn |-> "format_time", time |-> t, zone |-> z, returned |-> FALSE, result |-> <<>>] :
        t \in CommitTimes, z \in Zones}

InitTime == \E c \in TimeCalls : Called(c)

\* lines 122-138 on the arguments of the call
CallFormatTime ==
    /\ pc = "call"
    /\ call.fn = "format_time"
    /\ ~call.returned
    /\ call' = [call EXCEPT !.returned = TRUE,
                            !.result = format_time(call.time, call.zone)]
    /\ UNCHANGED <<pc, directory, force, file0, file, writer, stream, ids,
                   current_ids, already_added, walk, error, history, revwalk>>

NextTime == CallFormatTime

SpecTime == InitTime /\ [][NextTime]_vars

(* ------------------- reading the report and the history --------------- *)
(* The definitions below state the claims. They read the report as text    *)
(* and the history as trees, and use none of the operators of the filter.  *)

\* the lines written so far, in the file or still in the BufWriter
Report == file.content \o writer

AddedText(v) == <<"Added ", <<"[", v, "](https://youtu.be/", v, ")">>, "  ">>

RemovedText(v) == <<"Removed ", <<"[", v, "](https://youtu.be/", v, ")">>, "  ">>

IsHeaderText(line) == line[1] = "## "

IsEventText(line) == line[1] \in {"Added ", "Removed "}

HeaderPositions(rep) == {k \in 1..Len(rep) : IsHeaderText(rep[k])}

\* the commits of the sections, in the order of the report
HeaderCommits(rep) ==
    LET hs == SelectSeq(rep, IsHeaderText)
    IN  [k \in 1..Len(hs) |-> hs[k][2]]

\* for each line of the report the commit whose section holds it, 0 before
\* all sections
SectionOfLines(rep) ==
    LET F[k \in 0..Len(rep)] ==
            IF k = 0 THEN <<>>
            ELSE LET prev == F[k - 1]
                 IN  Append(prev, IF IsHeaderText(rep[k]) THEN rep[k][2]
                                  ELSE IF k = 1 THEN 0 ELSE prev[k - 1])
    IN  F[Len(rep)]

\* the event lines of the report: <<position, commit of the section, line>>
EventLines(rep) ==
    LET sec == SectionOfLines(rep)
    IN  {<<k, sec[k], rep[k]>> : k \in {j \in 1..Len(rep) : IsEventText(rep[j])}}

\* the lines "Added ..." in the section of commit c
AddedLinesOf(events, c) == {e \in events : e[2] = c /\ e[3][1] = "Added "}

HasAddedLine(events, c, v) == \E e \in events : e[2] = c /\ e[3] = AddedText(v)

HasRemovedLine(events, c, v) == \E e \in events : e[2] = c /\ e[3] = RemovedText(v)

UnderSongs(path) ==
    Len(path) > 2 /\ path[1] = <<"output", "">> /\ path[2] = <<"songs", "">>

StemOf(path) == path[Len(path)][1]

AllIds == {StemOf(AllPaths[k]) : k \in 1..Len(AllPaths)}

IsRoot(w, i) == w[i].parent = 0

NonRoots(w) == {i \in 1..Len(w) : ~IsRoot(w, i)}

\* the paths of the tree commit i is compared with: those of its first
\* parent, none for a root
PathsBefore(w, i) == IF IsRoot(w, i) THEN {} ELSE PathsOf(w[w[i].parent].tree)

\* the paths commit i changes: present in one of the two trees only, or
\* present in both with another blob
PathsAdded(w, i) == PathsOf(w[i].tree) \ PathsBefore(w, i)

PathsDeleted(w, i) == PathsBefore(w, i) \ PathsOf(w[i].tree)

PathsModified(w, i) ==
    {p \in PathsOf(w[i].tree) \cap PathsBefore(w, i) :
        \E e \in w[i].tree : e[1] = p /\ e \notin w[w[i].parent].tree}

PathsChanged(w, i) == PathsAdded(w, i) \cup PathsDeleted(w, i) \cup PathsModified(w, i)

\* the entries of the tree commit i is compared with: those of its first
\* parent, none for a root
EntriesBefore(w, i) == IF IsRoot(w, i) THEN {} ELSE w[w[i].parent].tree

\* the stems of the paths under output/songs that are in tree t and not in
\* tree u
StemsOnlyIn(t, u) ==
    {StemOf(e[1]) : e \in {f \in t : UnderSongs(f[1]) /\ \A g \in u : g[1] # f[1]}}

\* the identifiers each commit adds (deletes) under output/songs; a root
\* commit adds what its tree holds
IdsAdded(w) == [i \in 1..Len(w) |-> StemsOnlyIn(w[i].tree, EntriesBefore(w, i))]

IdsDeleted(w) == [i \in 1..Len(w) |-> StemsOnlyIn(EntriesBefore(w, i), w[i].tree)]

(* --------------------------------- C1 --------------------------------- *)

\* every commit of the history, the root included, adds exactly one path
\* under output/songs, of an identifier no earlier commit added
OneNewIdPerCommit(w) ==
    LET added == IdsAdded(w)
    IN  \A i \in 1..Len(w) :
            /\ Cardinality({q \in PathsAdded(w, i) : UnderSongs(q)}) = 1
            /\ \A j \in 1..(i - 1) : added[i] \cap added[j] = {}

\* the section of commit c holds exactly one line "Added", that of the
\* identifier the commit adds
OneAddedLine(events, added, c) ==
    /\ Cardinality(AddedLinesOf(events, c)) = 1
    /\ \A v \in added[c] : HasAddedLine(events, c, v)

\* C1 as stated: for a linear history of N commits, each adding exactly one
\* new identifier under output/songs, the report of the finished run holds
\* exactly N sections, in commit order, each with exactly one "Added" line.
C1_SectionPerCommit ==
    (pc = "done" /\ OneNewIdPerCommit(walk)) =>
        LET events == EventLines(file.content)
            added == IdsAdded(walk)
        IN  /\ HeaderCommits(file.content) = [k \in 1..Len(walk) |-> k]
            /\ \A c \in 1..Len(walk) : OneAddedLine(events, added, c)

\* C1 as amended: for a linear history of N commits, each adding exactly one
\* new identifier under output/songs, the report of the finished run holds
\* exactly N - 1 sections, those of the commits after the root in commit
\* order, each with exactly one "Added" line, that of the identifier its
\* commit adds; the root commit has no section.
C1_SectionPerNonRootCommit ==
    (pc = "done" /\ OneNewIdPerCommit(walk)) =>
        LET events == EventLines(file.content)
            added == IdsAdded(walk)
        IN  /\ HeaderCommits(file.content) = [k \in 1..(Len(walk) - 1) |-> k + 1]
            /\ \A c \in 2..Len(walk) : OneAddedLine(events, added, c)

\* a finished run over three commits that add one new identifier each
C1_Witness ==
    pc = "done" /\ Len(walk) = 3 /\ OneNewIdPerCommit(walk)

(* --------------------------------- C2 --------------------------------- *)

\* among the commits of S, A and B add identifier v, A before B: B's section
\* has no line "Added v", and when A is the first of S to add v, A's section
\* has the line and no other section has it
DedupHolds(events, added, S) ==
    \A A, B \in S : \A v \in added[A] :
        (A < B /\ v \in added[B]) =>
            /\ ~HasAddedLine(events, B, v)
            /\ (\A Z \in S : Z < A => v \notin added[Z]) =>
                /\ HasAddedLine(events, A, v)
                /\ \A e \in events : e[3] = AddedText(v) => e[2] = A

\* C2 as stated: for any identifier v and any two commits A before B of the
\* walk that both add a path under output/songs with stem v, only the
\* section of A holds a line "Added v"; B contributes none.
C2_DedupAnyCommits ==
    pc \in {"walk", "done"} =>
        DedupHolds(EventLines(Report), IdsAdded(walk), 1..Len(walk))

\* C2 as amended: the same for any two commits A before B that both have a
\* parent (a root commit is not diffed: what it adds is neither reported nor
\* remembered).
C2_DedupNonRootCommits ==
    pc \in {"walk", "done"} =>
        DedupHolds(EventLines(Report), IdsAdded(walk), NonRoots(walk))

\* an identifier added by a commit with a parent, deleted, and added again
C2_Witness ==
    /\ pc = "done"
    /\ Len(walk) = 4
    /\ "a" \in IdsAdded(walk)[2]
    /\ "a" \in IdsDeleted(walk)[3]
    /\ "a" \in IdsAdded(walk)[4]
    /\ HasAddedLine(EventLines(Report), 2, "a")

(* --------------------------------- C3 --------------------------------- *)

\* C3: no line "Removed v" of an identifier v of the Current-Id Set is ever
\* in the report, however many commits delete a path under output/songs of
\* stem v; the "Added" lines of a commit that also deletes v are written.
C3_CurrentIdsNeverRemoved ==
    pc \in {"walk", "done"} =>
        LET events == EventLines(Report)
            added == IdsAdded(walk)
        IN  /\ \A e \in events : \A v \in current_ids : e[3] # RemovedText(v)
            /\ \A c \in NonRoots(walk) : \A v \in added[c] :
                  (\A j \in 1..(c - 1) : v \notin added[j]) =>
                      HasAddedLine(events, c, v)

\* a commit deletes an identifier of the Current-Id Set and adds another:
\* its section has the "Added" line only
C3_Witness ==
    /\ pc = "done"
    /\ "a" \in current_ids
    /\ \E c \in NonRoots(walk) :
          /\ "a" \in IdsDeleted(walk)[c]
          /\ "b" \in IdsAdded(walk)[c]
          /\ HasAddedLine(EventLines(Report), c, "b")
          /\ ~HasRemovedLine(EventLines(Report), c, "a")

(* --------------------------------- C4 --------------------------------- *)

\* C4: a commit without a parent is skipped entirely: it has no section,
\* what it adds does not enter the Already-Added Set, and the report of a
\* repository with a single commit is the title line alone.
C4_RootCommitSkipped ==
    pc \in {"walk", "done"} =>
        LET hc == HeaderCommits(Report)
            added == IdsAdded(walk)
        IN  /\ \A k \in 1..Len(hc) : hc[k] \in NonRoots(walk)
            /\ already_added \subseteq UNION {added[i] : i \in NonRoots(walk)}
            /\ (pc = "done" /\ Len(walk) = 1) => file.content = <<<<"# songs-history">>>>

\* the finished run over a single commit that holds a song
C4_Witness ==
    pc = "done" /\ Len(walk) = 1 /\ "a" \in IdsAdded(walk)[1]

(* --------------------------------- C5 --------------------------------- *)

\* C5: a commit that changes only paths outside output/songs writes no
\* section and leaves the Already-Added Set as it is, and no commit puts
\* into the Already-Added Set anything but the identifiers it adds under
\* output/songs.
C5_OutsidePathsIgnored ==
    [][(pc = "walk" /\ Len(walk') = Len(walk) + 1) =>
          LET c == Len(walk')
          IN  /\ (\A p \in PathsChanged(walk', c) : ~UnderSongs(p)) =>
                    (Report' = Report /\ already_added' = already_added)
              /\ (already_added' \ already_added) \subseteq IdsAdded(walk')[c]]_vars

\* the finished run has a commit with a parent that changes paths, all of
\* them outside output/songs, and no section
C5_Witness ==
    /\ pc = "done"
    /\ \E c \in NonRoots(walk) :
          /\ PathsChanged(walk, c) # {}
          /\ \A p \in PathsChanged(walk, c) : ~UnderSongs(p)
          /\ \A k \in 1..Len(HeaderCommits(Report)) : HeaderCommits(Report)[k] # c

(* --------------------------------- C6 --------------------------------- *)

\* the strings that are the "id" of an item of the value
StringIds(value) ==
    {value.items[k].id[2] :
        k \in {j \in 1..Len(value.items) : value.items[j].id[1] = "String"}}

\* C6: no value of the summary aborts the load: a value that does not parse,
\* one without an "items" array and an item without a string "id" are
\* skipped, and the load goes on with the values that follow.
C6_MalformedEntriesSkipped ==
    [][(pc = "load" /\ stream # <<>>) =>
          /\ pc' = "load"
          /\ stream' = Tail(stream)
          /\ ids' = ids \cup StringIds(Head(stream))]_vars

(* --------------------------------- C7 --------------------------------- *)

\* C7: when head or the summary at head does not resolve, the run ends
\* without output: output.txt is neither created nor truncated, and holds
\* neither the title line nor a section.
C7_NoOutputOnResolveFailure ==
    (pc = "panicked" /\ error \in {"push_head", "summary"}) => file = file0

(* --------------------------------- C8 --------------------------------- *)

\* C8: when output.txt exists and --force is not given, the run ends with a
\* fatal error before any commit is processed and the file keeps its
\* content; with --force the file is truncated and rewritten.
C8_ExistingOutput ==
    /\ (~force /\ file0.exists) =>
          /\ file = file0
          /\ walk = <<>>
          /\ pc \in {"open_repo", "push_head", "open_output", "panicked"}
    /\ (force /\ file0.exists /\ pc \in {"write_title", "resolve_summary", "load", "walk"}) =>
          file = [exists |-> TRUE, content |-> <<>>]
    /\ (force /\ file0.exists /\ pc = "done") =>
          /\ file.content[1] = <<"# songs-history">>
          /\ \A k \in 1..Len(file.content) : \A j \in 1..Len(file0.content) :
                file.content[k] # file0.content[j]

\* the run without --force ended at the existing output.txt
C8_Witness ==
    ~force /\ file0.exists /\ pc = "panicked" /\ error = "already_exists"

(* --------------------------------- C10 -------------------------------- *)

\* commit c has an event that survives the filter: it adds an identifier
\* that no earlier commit with a parent added, or deletes one that is not
\* in the Current-Id Set
HasSurvivingEvent(w, added, deleted, c, current) ==
    \/ \E v \in added[c] : \A j \in NonRoots(w) : j < c => v \notin added[j]
    \/ \E v \in deleted[c] : v \notin current

\* C10: the report has exactly one section for every walked commit with a
\* parent and at least one surviving event, none for any other commit, the
\* sections are in walk order, and every header is followed by an event line.
C10_SectionsOfSurvivingCommits ==
    pc \in {"walk", "done"} =>
        LET hc == HeaderCommits(Report)
            added == IdsAdded(walk)
            deleted == IdsDeleted(walk)
        IN  /\ \A k \in 1..(Len(hc) - 1) : hc[k] < hc[k + 1]
            /\ {hc[k] : k \in 1..Len(hc)} =
                  {c \in NonRoots(walk) :
                      HasSurvivingEvent(walk, added, deleted, c, current_ids)}
            /\ \A h \in HeaderPositions(Report) :
                  h < Len(Report) /\ IsEventText(Report[h + 1])

\* the finished run has two sections and, between their commits, a commit
\* that changes tracked paths and has none
C10_Witness ==
    /\ pc = "done"
    /\ HeaderCommits(Report) = <<2, 4>>
    /\ IdsAdded(walk)[3] \cup IdsDeleted(walk)[3] # {}

(* --------------------------------- C11 -------------------------------- *)

\* the identifiers of the lines of the given kind ("Added " or "Removed ")
\* in the section of commit c, in the order of the report
IdsOfSection(rep, sec, c, kind) ==
    LET F[k \in 0..Len(rep)] ==
            IF k = 0 THEN <<>>
            ELSE IF sec[k] = c /\ rep[k][1] = kind
                 THEN Append(F[k - 1], rep[k][2][2])
                 ELSE F[k - 1]
    IN  F[Len(rep)]

\* the stems of those of the given paths that are under output/songs, in
\* the order in which a diff lists the paths
StemsInDeltaOrder(paths) ==
    LET F[k \in 0..Len(AllPaths)] ==
            IF k = 0 THEN <<>>
            ELSE IF AllPaths[k] \in paths /\ UnderSongs(AllPaths[k])
                 THEN Append(F[k - 1], StemOf(AllPaths[k]))
                 ELSE F[k - 1]
    IN  F[Len(AllPaths)]

\* the elements of s that are in S, in the order of s; with once, only the
\* first occurrence of each
Restrict(s, S, once) ==
    LET F[k \in 0..Len(s)] ==
            IF k = 0 THEN <<>>
            ELSE IF s[k] \in S /\ (once => \A j \in 1..(k - 1) : s[j] # s[k])
                 THEN Append(F[k - 1], s[k])
                 ELSE F[k - 1]
    IN  F[Len(s)]

Range(s) == {s[k] : k \in 1..Len(s)}

\* C11: in every section all "Added" lines come before all "Removed"
\* lines; the "Added" lines are in the order in which the diff lists the
\* added paths, and the "Removed" lines in the order in which it lists the
\* deleted paths, also when additions and deletions alternate in the diff.
C11_AddedThenRemovedInDeltaOrder ==
    pc \in {"walk", "done"} =>
        LET sec == SectionOfLines(Report)
        IN  /\ \A k \in 1..(Len(Report) - 1) :
                  (Report[k][1] = "Removed " /\ sec[k + 1] = sec[k]) =>
                      Report[k + 1][1] = "Removed "
            /\ \A c \in NonRoots(walk) :
                  LET addedIds == IdsOfSection(Report, sec, c, "Added ")
                      removedIds == IdsOfSection(Report, sec, c, "Removed ")
                  IN  /\ addedIds = Restrict(StemsInDeltaOrder(PathsAdded(walk, c)),
                                             Range(addedIds), TRUE)
                      /\ removedIds = Restrict(StemsInDeltaOrder(PathsDeleted(walk, c)),
                                               AllIds \ current_ids, FALSE)

\* a commit whose diff lists a deletion, an addition and a deletion, in
\* that order: its section is "Added b", "Removed a", "Removed c"
C11_Witness ==
    /\ pc = "done"
    /\ \E c \in NonRoots(walk) :
          /\ PathsDeleted(walk, c) = {SongA, SongC}
          /\ PathsAdded(walk, c) = {SongB}
          /\ LET sec == SectionOfLines(Report)
             IN  /\ IdsOfSection(Report, sec, c, "Added ") = <<"b">>
                 /\ IdsOfSection(Report, sec, c, "Removed ") = <<"a", "c">>

(* --------------------------------- C12 -------------------------------- *)

\* the first phase of the specified filter: the deltas that add a path
\* under output/songs, in delta order, each kept when its stem is not yet in
\* the Already-Added Set, which it then enters
AddPhase(deltas, already) ==
    LET F[k \in 0..Len(deltas)] ==
            IF k = 0 THEN [added |-> <<>>, already_added |-> already]
            ELSE LET d == deltas[k]
                     v == StemOf(d.new_file)
                 IN  IF /\ d.status = "Added"
                        /\ UnderSongs(d.new_file)
                        /\ v \notin F[k - 1].already_added
                     THEN [added |-> Append(F[k - 1].added, v),
                           already_added |-> F[k - 1].already_added \cup {v}]
                     ELSE F[k - 1]
    IN  F[Len(deltas)]

\* the second phase: the deltas that delete a path under output/songs, in
\* delta order, each kept when its stem is not in the Current-Id Set
DeletePhase(deltas, current) ==
    LET F[k \in 0..Len(deltas)] ==
            IF k = 0 THEN <<>>
            ELSE LET d == deltas[k]
                 IN  IF /\ d.status = "Deleted"
                        /\ UnderSongs(d.new_file)
                        /\ StemOf(d.new_file) \notin current
                     THEN Append(F[k - 1], StemOf(d.new_file))
                     ELSE F[k - 1]
    IN  F[Len(deltas)]

\* C12: for every sequence of deltas, every Already-Added Set and every
\* Current-Id Set, the single pass of the code returns the added list and
\* the Already-Added Set of the add phase run alone and the deleted list of
\* the delete phase run alone (so the deletes neither read nor write the
\* Already-Added Set).
C12_SinglePassIsTwoPhase ==
    (call.fn = "ProcessDeltas" /\ call.returned) =>
        /\ call.result.added = AddPhase(call.deltas, call.already).added
        /\ call.result.already_added = AddPhase(call.deltas, call.already).already_added
        /\ call.result.deleted = DeletePhase(call.deltas, call.current)

\* a pass over a deletion of an identifier, its addition and its deletion
\* again, where both deletions and the addition survive
C12_Witness ==
    /\ call.fn = "ProcessDeltas"
    /\ call.returned
    /\ call.deltas = <<[status |-> "Deleted", new_file |-> SongA],
                       [status |-> "Added", new_file |-> SongATxt],
                       [status |-> "Deleted", new_file |-> SongB]>>
    /\ call.result.added = <<"a">>
    /\ call.result.deleted = <<"a", "b">>
    /\ call.already = {"b"}
    /\ call.result.already_added = {"a", "b"}

(* --------------------------------- C13 -------------------------------- *)

\* C13: the Already-Added Set is empty until the first commit is processed
\* and no step of the run takes an identifier out of it; once loaded, the
\* Current-Id Set is not modified by any step.
C13_SetsGrowOnly ==
    [][/\ walk = <<>> => already_added = {}
       /\ already_added \subseteq already_added'
       /\ pc \in {"walk", "done"} => current_ids' = current_ids]_vars

\* the finished run reported two identifiers as added, one of them deleted
\* by a later commit, with a Current-Id Set that is not empty
C13_Witness ==
    /\ pc = "done"
    /\ Len(walk) = 4
    /\ current_ids = {"a"}
    /\ already_added = {"a", "b"}
    /\ "b" \in IdsAdded(walk)[2]
    /\ "b" \in IdsDeleted(walk)[3]
    /\ HasRemovedLine(EventLines(Report), 3, "b")

(* --------------------------------- C14 -------------------------------- *)

\* the commits with a parent whose diff has an Added delta of path p
CommitsAdding(w, p) == {c \in NonRoots(w) : p \in PathsAdded(w, c)}

\* the commits with a parent whose diff has an Added delta of a path under
\* output/songs with stem v
CommitsAddingStem(w, v) ==
    {c \in NonRoots(w) : \E p \in PathsAdded(w, c) : UnderSongs(p) /\ StemOf(p) = v}

\* C14: when the deltas of the run add two different paths under
\* output/songs with the same stem v, in one commit or in several, the
\* report has exactly one line "Added v", in the section of the first commit
\* that has such a delta.
C14_OneAddedLinePerStem ==
    pc \in {"walk", "done"} =>
        \A p1, p2 \in Range(AllPaths) :
            (/\ p1 # p2
             /\ UnderSongs(p1) /\ UnderSongs(p2)
             /\ StemOf(p1) = StemOf(p2)
             /\ CommitsAdding(walk, p1) # {}
             /\ CommitsAdding(walk, p2) # {}) =>
                LET v == StemOf(p1)
                    commits == CommitsAddingStem(walk, v)
                    lines == {e \in EventLines(Report) : e[3] = AddedText(v)}
                IN  /\ Cardinality(lines) = 1
                    /\ \A e \in lines :
                          e[2] \in commits /\ \A c \in commits : e[2] <= c

\* two paths of stem a added by one commit, one of them deleted and added
\* again by later commits: one line "Added a", in the section of the first
C14_Witness ==
    /\ pc = "done"
    /\ Len(walk) = 4
    /\ {SongA, SongATxt} \subseteq PathsAdded(walk, 2)
    /\ SongATxt \in PathsDeleted(walk, 3)
    /\ SongATxt \in PathsAdded(walk, 4)
    /\ HasAddedLine(EventLines(Report), 2, "a")

(* --------------------------------- C15 -------------------------------- *)

\* the parents of commit i of history h, as a set
ParentsIn(h, i) ==
    {p \in 1..Len(h) : p = h[i].parent \/ \E k \in 1..Len(h[i].others) : p = h[i].others[k]}

\* the commits reachable from the head of history h through parent links
\* (a parent was created before its children)
ReachableFromHead(h) ==
    LET R[k \in 0..Len(h)] ==
            IF k = 0 THEN {Len(h)}
            ELSE LET i == Len(h) - k + 1
                 IN  IF i \in R[k - 1] THEN R[k - 1] \cup ParentsIn(h, i) ELSE R[k - 1]
    IN  R[Len(h)]

\* the identities of the commits processed, in the order of processing
ProcessedIds == [k \in 1..Len(walk) |-> walk[k].id]

\* the processed commits are those reachable from head, each once
VisitsReachableOnce ==
    /\ Range(ProcessedIds) = ReachableFromHead(history)
    /\ \A j, k \in 1..Len(walk) : walk[j].id = walk[k].id => j = k

\* every processed commit of S that has a parent is processed after its
\* first parent
AfterFirstParent(S) ==
    \A k \in 1..Len(walk) :
        (walk[k].id \in S /\ walk[k].parent # 0) =>
            \E j \in 1..(k - 1) : walk[j].id = walk[k].parent

\* the run ends
Terminates == <>(pc \in {"done", "panicked"})

\* C15 as stated: the run ends, and the finished walk has processed every
\* commit reachable from head exactly once, each commit after its first
\* parent.
C15_EveryCommitAfterFirstParent ==
    /\ [](pc = "done" => (VisitsReachableOnce /\ AfterFirstParent(1..Len(history))))
    /\ Terminates

\* C15 as amended: the run ends, and the finished walk has processed every
\* commit reachable from head exactly once, head last and every other
\* commit before one of its children; every commit is processed after its
\* first parent when no merge commit is reachable from head.
C15_EveryCommitBeforeAChild ==
    /\ [](pc = "done" =>
            /\ VisitsReachableOnce
            /\ walk[Len(walk)].id = Len(history)
            /\ \A k \in 1..(Len(walk) - 1) :
                  \E j \in (k + 1)..Len(walk) : walk[k].id \in ParentsIn(history, walk[j].id)
            /\ (\A i \in ReachableFromHead(history) : history[i].others = <<>>) =>
                  AfterFirstParent(1..Len(history)))
    /\ Terminates

\* a finished walk over a branch merged into its own base: the commit of
\* the branch was processed before its parent
C15_Witness ==
    /\ pc = "done"
    /\ Len(history) = 3
    /\ history[2].parent = 1
    /\ history[3].parent = 1
    /\ history[3].others = <<2>>
    /\ ProcessedIds = <<2, 1, 3>>

(* --------------------------------- C16 -------------------------------- *)

\* C16: the section of a merge commit is that of the changes from the tree
\* of its first parent to its own tree, whatever its other parents hold: its
\* lines are of identifiers added or deleted between these two trees, an
\* identifier added between them has its "Added" line there unless a commit
\* processed earlier has one for it, and an identifier deleted between them
\* has its "Removed" line there unless it is in the Current-Id Set.
C16_MergeDiffedAgainstFirstParent ==
    pc \in {"process", "done"} =>
        LET events == EventLines(Report)
        IN  \A k \in 1..Len(walk) :
                walk[k].others # <<>> =>
                    LET m == walk[k].id
                        earlier == {walk[j].id : j \in 1..(k - 1)}
                        added == StemsOnlyIn(walk[k].tree, history[walk[k].parent].tree)
                        deleted == StemsOnlyIn(history[walk[k].parent].tree, walk[k].tree)
                    IN  /\ \A e \in events : e[2] = m =>
                              \/ \E v \in added : e[3] = AddedText(v)
                              \/ \E v \in deleted : e[3] = RemovedText(v)
                        /\ \A v \in added :
                              HasAddedLine(events, m, v) <=>
                                  ~\E e \in events : e[2] \in earlier /\ e[3] = AddedText(v)
                        /\ \A v \in deleted \ current_ids : HasRemovedLine(events, m, v)

\* a merge whose second parent holds a song that its first parent does not
\* hold: the song is reported as added by the merge commit
C16_Witness ==
    /\ pc = "done"
    /\ Len(history) = 3
    /\ history[3].parent = 1
    /\ history[3].others = <<2>>
    /\ history[1].tree = {}
    /\ history[2].tree = {<<SongA, 1>>}
    /\ history[3].tree = {<<SongA, 1>>}
    /\ HasAddedLine(EventLines(Report), 3, "a")

(* --------------------------------- C17 -------------------------------- *)

\* the hour or minute n < 100 as two decimal digits
TwoDigits(n) == <<n \div 10, n % 10>>

\* C17: for a commit time of s seconds and an offset of m minutes, the
\* header is the calendar time of the instant s + 60 * m read as UTC,
\* whatever the machine, followed by "-" when m < 0 and "+" otherwise and by
\* |m| div 60 and |m| mod 60, each as two digits.
C17_HeaderIsCommitterWallClock ==
    (call.fn = "format_time" /\ call.returned) =>
        LET s == call.time.seconds
            m == call.time.offset_minutes
            abs == IF m < 0 THEN 0 - m ELSE m
        IN  call.result =
                strftime(Tm(s + 60 * m, 0))
                \o <<" ", IF m < 0 THEN "-" ELSE "+",
                     TwoDigits(abs \div 60), TwoDigits(abs % 60)>>

(* --------------------------------- C18 -------------------------------- *)

\* C18: after every processed commit the Already-Added Set is the set of
\* the identifiers that have an "Added" line in the report written so far,
\* and no identifier has two "Added" lines in the report.
C18_AlreadyAddedIsReportedAdded ==
    pc \in {"walk", "done"} =>
        LET lines == {e \in EventLines(Report) : e[3][1] = "Added "}
        IN  /\ already_added = {e[3][2][2] : e \in lines}
            /\ \A e \in lines : e[3] = AddedText(e[3][2][2])
            /\ \A e1, e2 \in lines : e1[3] = e2[3] => e1 = e2

\* the finished run reported three identifiers as added, one of them added
\* again after its deletion
C18_Witness ==
    /\ pc = "done"
    /\ Len(walk) = 4
    /\ already_added = {"a", "b", "c"}
    /\ \E v \in already_added :
          /\ v \in IdsAdded(walk)[2]
          /\ v \in IdsDeleted(walk)[3]
          /\ v \in IdsAdded(walk)[4]

(* --------------------------------- C19 -------------------------------- *)

\* C19: the section of a commit with a parent has one line "Removed v" for
\* every path under output/songs with stem v that the commit deletes, when
\* v is not in the Current-Id Set: whether or not v has an "Added" line,
\* has a "Removed" line already, or is added again later.
C19_EveryDeletionReported ==
    pc \in {"walk", "done"} =>
        LET events == EventLines(Report)
        IN  \A c \in NonRoots(walk) : \A v \in AllIds \ current_ids :
                Cardinality({e \in events : e[2] = c /\ e[3] = RemovedText(v)})
                = Cardinality({p \in PathsDeleted(walk, c) : UnderSongs(p) /\ StemOf(p) = v})

\* an identifier held by the root commit, deleted (never reported as
\* added), added again and deleted again: two sections have "Removed a"
C19_Witness ==
    /\ pc = "done"
    /\ Len(walk) = 4
    /\ "a" \in IdsAdded(walk)[1]
    /\ "a" \in IdsDeleted(walk)[2]
    /\ "a" \in IdsAdded(walk)[3]
    /\ "a" \in IdsDeleted(walk)[4]
    /\ HasRemovedLine(EventLines(Report), 2, "a")
    /\ HasAddedLine(EventLines(Report), 3, "a")
    /\ HasRemovedLine(EventLines(Report), 4, "a")

====
